---- MODULE Spec2Model ----
(***************************************************************************)
(* GoclDevice (gocl-device.c): the private state of one device object, its *)
(* construction, its public accessors, its dispose handler, and the two    *)
(* lazily cached values (max work group size, default queue), both as      *)
(* whole calls made one after another and as the steps two threads         *)
(* interleave.                                                             *)
(***************************************************************************)
EXTENDS Integers, FiniteSets, Sequences, TLC

\* ---------------------------------------------------------------- bounds
NContexts == 2      \* context objects a device may be constructed with
NDeviceIds == 1     \* native device handles
MaxSize == 3        \* largest work group size the native layer reports
MaxQueues == 2      \* queue objects that may ever be allocated
MaxCalls == 4       \* public calls made on the device, one after another
MaxDispose == 2     \* times the dispose handler runs
NThreads == 2       \* threads calling into the device at once
HalfBase == 2       \* a gsize is stored as two halves, each below HalfBase

NULL == 0

Contexts == 1..NContexts
DeviceIds == 1..NDeviceIds
Sizes == 0..MaxSize
Queues == 1..MaxQueues
Threads == 1..NThreads

\* cl_int status of clGetDeviceInfo, and the absence of a GError
CL_SUCCESS == "CL_SUCCESS"
ErrCodes == {CL_SUCCESS, "CL_INVALID_DEVICE", "CL_OUT_OF_RESOURCES"}
NoError == "none"
QueueError == "queue_init_failed"

VARIABLES
  \* struct _GoclDevicePrivate
  context, device_id, max_work_group_size, queue,
  \* the object's life: construct properties set, dispose runs
  constructed, n_dispose,
  \* reference counts of the other objects (0: not alive)
  ctx_ref, queue_ref,
  \* the native device: the size a successful query reports
  dev_size,
  \* what the last call of each kind returned to its caller
  op, ret_id, ret_context, ret_size, ret_error, ret_queue, ret_qerror,
  \* whether the last lazy call was answered from the cache field
  from_cache,
  \* history: what has been done so far
  ctx_supplied, n_calls, n_query, n_query_ok, n_attempt, n_construct,
  queue_unrefs,
  \* threads inside a call: position and locals
  thr

privVars == <<context, device_id, max_work_group_size, queue>>
lifeVars == <<constructed, n_dispose, ctx_supplied>>
refVars  == <<ctx_ref, queue_ref, queue_unrefs>>
retVars  == <<ret_id, ret_context, ret_size, ret_error, ret_queue, ret_qerror,
             from_cache>>
cntVars  == <<n_query, n_query_ok, n_attempt, n_construct>>
vars == <<privVars, lifeVars, refVars, dev_size, op, retVars, n_calls,
          cntVars, thr>>

\* a thread that is in no call
IdleThread ==
  [pc |-> "idle", err |-> NoError, val |-> 0, todo |-> {}, tmp |-> NULL,
   ret |-> 0, rerr |-> NoError]

\* gocl_device_init: the state of a freshly allocated instance
Init ==
  /\ context = NULL
  /\ device_id = NULL
  /\ max_work_group_size = 0
  /\ queue = NULL
  /\ constructed = FALSE
  /\ n_dispose = 0
  /\ ctx_ref = [c \in Contexts |-> 1]
  /\ queue_ref = [q \in Queues |-> 0]
  /\ queue_unrefs = [q \in Queues |-> 0]
  /\ dev_size \in 1..MaxSize
  /\ op = "init"
  /\ ret_id = NULL
  /\ ret_context = NULL
  /\ ret_size = 0
  /\ ret_error = NoError
  /\ ret_queue = NULL
  /\ ret_qerror = NoError
  /\ from_cache = FALSE
  /\ ctx_supplied = NULL
  /\ n_calls = 0
  /\ n_query = 0
  /\ n_query_ok = 0
  /\ n_attempt = 0
  /\ n_construct = 0
  /\ thr = [t \in Threads |-> IdleThread]

\* ------------------------------------------------------------ helpers

\* g_value_dup_object: the object of the value, with one more reference
g_value_dup_object(refs, value) ==
  IF value = NULL THEN refs ELSE [refs EXCEPT ![value] = @ + 1]

\* g_object_unref
g_object_unref(refs, obj) == [refs EXCEPT ![obj] = @ - 1]

\* gocl_error_check_opencl: TRUE (and the error set) on a failing status
gocl_error_check_opencl(err_code) == err_code # CL_SUCCESS

\* clGetDeviceInfo (CL_DEVICE_MAX_WORK_GROUP_SIZE): the outcomes of the
\* native query. A success stores the device's size; a failure reports a
\* status and may have stored anything in the output parameter.
clGetDeviceInfo(id, err_code, written) ==
  /\ err_code \in ErrCodes
  /\ written \in Sizes
  /\ err_code = CL_SUCCESS => (id # NULL /\ written = dev_size)

\* the first unused queue object
NewQueue == n_construct + 1

\* a gsize as two halves
Lo(v) == v % HalfBase
Hi(v) == v \div HalfBase
StoreHalf(old, part, v) ==
  IF part = "lo" THEN Hi(old) * HalfBase + Lo(v)
  ELSE Hi(v) * HalfBase + Lo(old)

\* ------------------------------------------------- calls, one at a time

noThread == UNCHANGED thr

\* set_property without taking a reference (g_value_get_object)
set_property_borrowed(prop_id, value) ==
  CASE prop_id = "PROP_CONTEXT" ->
         /\ context' = value
         /\ ctx_ref' = ctx_ref
    [] prop_id = "PROP_ID" ->
         device_id' = value

\* set_property: PROP_CONTEXT keeps a new reference to the context,
\* PROP_ID keeps the native handle
set_property(prop_id, value) ==
  CASE prop_id = "PROP_CONTEXT" ->
         /\ context' = value
         /\ ctx_ref' = g_value_dup_object(ctx_ref, value)
    [] prop_id = "PROP_ID" ->
         device_id' = value

\* g_object_new (GOCL_TYPE_DEVICE, "context", ctx, "id", id): both
\* properties are construct-only, so they are set here and never again
g_object_new(ctx, id) ==
  /\ ~constructed
  /\ set_property("PROP_CONTEXT", ctx)
  /\ set_property("PROP_ID", id)
  /\ constructed' = TRUE
  /\ ctx_supplied' = ctx
  /\ op' = "new"
  /\ UNCHANGED <<max_work_group_size, queue, n_dispose, queue_ref,
                 queue_unrefs, dev_size, retVars, n_calls, cntVars>>
  /\ noThread

\* gocl_device_get_id
gocl_device_get_id ==
  /\ constructed
  /\ n_calls < MaxCalls
  /\ ret_id' = device_id
  /\ op' = "get_id"
  /\ n_calls' = n_calls + 1
  /\ UNCHANGED <<privVars, lifeVars, refVars, dev_size, ret_context,
                 ret_size, ret_error, ret_queue, ret_qerror, from_cache,
                 cntVars>>
  /\ noThread

\* gocl_device_get_context returning the wrong field
gocl_device_get_context_wrong ==
  /\ constructed
  /\ n_calls < MaxCalls
  /\ ret_context' = queue
  /\ op' = "get_context"
  /\ n_calls' = n_calls + 1
  /\ UNCHANGED <<privVars, lifeVars, refVars, dev_size, ret_id,
                 ret_size, ret_error, ret_queue, ret_qerror, from_cache,
                 cntVars>>
  /\ noThread

\* gocl_device_get_context
gocl_device_get_context ==
  /\ constructed
  /\ n_calls < MaxCalls
  /\ ret_context' = context
  /\ op' = "get_context"
  /\ n_calls' = n_calls + 1
  /\ UNCHANGED <<privVars, lifeVars, refVars, dev_size, ret_id,
                 ret_size, ret_error, ret_queue, ret_qerror, from_cache,
                 cntVars>>
  /\ noThread

\* gocl_device_get_max_work_group_size without the test of the cache
\* field: every call queries
gocl_device_get_max_work_group_size_nocache(err_code, written) ==
  /\ constructed
  /\ n_calls < MaxCalls
  /\ clGetDeviceInfo(device_id, err_code, written)
  /\ from_cache' = FALSE
  /\ max_work_group_size' = written
  /\ n_query' = n_query + 1
  /\ IF gocl_error_check_opencl(err_code)
     THEN /\ ret_size' = 0
          /\ ret_error' = err_code
          /\ n_query_ok' = n_query_ok
     ELSE /\ ret_size' = max_work_group_size'
          /\ ret_error' = NoError
          /\ n_query_ok' = n_query_ok + 1
  /\ op' = "get_max_work_group_size"
  /\ n_calls' = n_calls + 1
  /\ UNCHANGED <<context, device_id, queue, lifeVars, refVars, dev_size,
                 ret_id, ret_context, ret_queue, ret_qerror, n_attempt,
                 n_construct>>
  /\ noThread

\* gocl_device_get_max_work_group_size without the early return of zero:
\* a failed query returns the field as well
gocl_device_get_max_work_group_size_nozero(err_code, written) ==
  /\ constructed
  /\ n_calls < MaxCalls
  /\ IF max_work_group_size > 0
     THEN /\ ret_size' = max_work_group_size
          /\ ret_error' = NoError
          /\ from_cache' = TRUE
          /\ UNCHANGED <<max_work_group_size, n_query, n_query_ok>>
     ELSE /\ clGetDeviceInfo(device_id, err_code, written)
          /\ from_cache' = FALSE
          /\ max_work_group_size' = written
          /\ n_query' = n_query + 1
          /\ ret_size' = max_work_group_size'
          /\ IF gocl_error_check_opencl(err_code)
             THEN /\ ret_error' = err_code
                  /\ n_query_ok' = n_query_ok
             ELSE /\ ret_error' = NoError
                  /\ n_query_ok' = n_query_ok + 1
  /\ op' = "get_max_work_group_size"
  /\ n_calls' = n_calls + 1
  /\ UNCHANGED <<context, device_id, queue, lifeVars, refVars, dev_size,
                 ret_id, ret_context, ret_queue, ret_qerror, n_attempt,
                 n_construct>>
  /\ noThread

\* gocl_device_get_max_work_group_size: the cached value when it is
\* positive; otherwise the native query, which stores straight into the
\* cache field, and zero when the query failed
gocl_device_get_max_work_group_size(err_code, written) ==
  /\ constructed
  /\ n_calls < MaxCalls
  /\ IF max_work_group_size > 0
     THEN /\ ret_size' = max_work_group_size
          /\ ret_error' = NoError
          /\ from_cache' = TRUE
          /\ UNCHANGED <<max_work_group_size, n_query, n_query_ok>>
     ELSE /\ clGetDeviceInfo(device_id, err_code, written)
          /\ from_cache' = FALSE
          /\ max_work_group_size' = written
          /\ n_query' = n_query + 1
          /\ IF gocl_error_check_opencl(err_code)
             THEN /\ ret_size' = 0
                  /\ ret_error' = err_code
                  /\ n_query_ok' = n_query_ok
             ELSE /\ ret_size' = max_work_group_size'
                  /\ ret_error' = NoError
                  /\ n_query_ok' = n_query_ok + 1
  /\ op' = "get_max_work_group_size"
  /\ n_calls' = n_calls + 1
  /\ UNCHANGED <<context, device_id, queue, lifeVars, refVars, dev_size,
                 ret_id, ret_context, ret_queue, ret_qerror, n_attempt,
                 n_construct>>
  /\ noThread

\* gocl_device_get_default_queue without the test of the cache field:
\* every call constructs
gocl_device_get_default_queue_always(ok) ==
  /\ constructed
  /\ n_calls < MaxCalls
  /\ n_attempt' = n_attempt + 1
  /\ from_cache' = FALSE
  /\ IF ok
     THEN /\ n_construct < MaxQueues
          /\ queue' = NewQueue
          /\ queue_ref' = [queue_ref EXCEPT ![NewQueue] = 1]
          /\ n_construct' = n_construct + 1
          /\ ret_qerror' = NoError
     ELSE /\ queue' = NULL
          /\ ret_qerror' = QueueError
          /\ UNCHANGED <<queue_ref, n_construct>>
  /\ ret_queue' = queue'
  /\ op' = "get_default_queue"
  /\ n_calls' = n_calls + 1
  /\ UNCHANGED <<context, device_id, max_work_group_size, lifeVars,
                 ctx_ref, queue_unrefs, dev_size, ret_id, ret_context,
                 ret_size, ret_error, n_query, n_query_ok>>
  /\ noThread

\* gocl_device_get_default_queue keeping the object whose initialisation
\* failed in the cache field
gocl_device_get_default_queue_keepfailed(ok) ==
  /\ constructed
  /\ n_calls < MaxCalls
  /\ IF queue = NULL
     THEN /\ n_attempt' = n_attempt + 1
          /\ from_cache' = FALSE
          /\ n_construct < MaxQueues
          /\ queue' = NewQueue
          /\ queue_ref' = [queue_ref EXCEPT ![NewQueue] = 1]
          /\ IF ok
             THEN /\ n_construct' = n_construct + 1
                  /\ ret_qerror' = NoError
             ELSE /\ n_construct' = n_construct
                  /\ ret_qerror' = QueueError
     ELSE /\ ret_qerror' = NoError
          /\ from_cache' = TRUE
          /\ UNCHANGED <<queue, queue_ref, n_attempt, n_construct>>
  /\ ret_queue' = queue'
  /\ op' = "get_default_queue"
  /\ n_calls' = n_calls + 1
  /\ UNCHANGED <<context, device_id, max_work_group_size, lifeVars,
                 ctx_ref, queue_unrefs, dev_size, ret_id, ret_context,
                 ret_size, ret_error, n_query, n_query_ok>>
  /\ noThread

\* gocl_device_get_default_queue: the cached queue, or the result of
\* g_initable_new (a new queue holding one reference, or NULL and the
\* error), stored in the cache field and returned
gocl_device_get_default_queue(ok) ==
  /\ constructed
  /\ n_calls < MaxCalls
  /\ IF queue = NULL
     THEN /\ n_attempt' = n_attempt + 1
          /\ from_cache' = FALSE
          /\ IF ok
             THEN /\ n_construct < MaxQueues
                  /\ queue' = NewQueue
                  /\ queue_ref' = [queue_ref EXCEPT ![NewQueue] = 1]
                  /\ n_construct' = n_construct + 1
                  /\ ret_qerror' = NoError
             ELSE /\ queue' = NULL
                  /\ ret_qerror' = QueueError
                  /\ UNCHANGED <<queue_ref, n_construct>>
     ELSE /\ ret_qerror' = NoError
          /\ from_cache' = TRUE
          /\ UNCHANGED <<queue, queue_ref, n_attempt, n_construct>>
  /\ ret_queue' = queue'
  /\ op' = "get_default_queue"
  /\ n_calls' = n_calls + 1
  /\ UNCHANGED <<context, device_id, max_work_group_size, lifeVars,
                 ctx_ref, queue_unrefs, dev_size, ret_id, ret_context,
                 ret_size, ret_error, n_query, n_query_ok>>
  /\ noThread

\* gocl_device_dispose leaving the queue field set after the unref
gocl_device_dispose_keep ==
  /\ constructed
  /\ n_dispose < MaxDispose
  /\ IF context # NULL
     THEN /\ ctx_ref' = g_object_unref(ctx_ref, context)
          /\ context' = NULL
     ELSE UNCHANGED <<ctx_ref, context>>
  /\ IF queue # NULL
     THEN /\ queue_ref' = g_object_unref(queue_ref, queue)
          /\ queue_unrefs' = [queue_unrefs EXCEPT ![queue] = @ + 1]
          /\ queue' = queue
     ELSE UNCHANGED <<queue_ref, queue_unrefs, queue>>
  /\ n_dispose' = n_dispose + 1
  /\ op' = "dispose"
  /\ UNCHANGED <<device_id, max_work_group_size, constructed,
                 ctx_supplied, dev_size, retVars, n_calls, cntVars>>
  /\ noThread

\* gocl_device_dispose: drops the context and the queue, each if set
gocl_device_dispose ==
  /\ constructed
  /\ n_dispose < MaxDispose
  /\ IF context # NULL
     THEN /\ ctx_ref' = g_object_unref(ctx_ref, context)
          /\ context' = NULL
     ELSE UNCHANGED <<ctx_ref, context>>
  /\ IF queue # NULL
     THEN /\ queue_ref' = g_object_unref(queue_ref, queue)
          /\ queue_unrefs' = [queue_unrefs EXCEPT ![queue] = @ + 1]
          /\ queue' = NULL
     ELSE UNCHANGED <<queue_ref, queue_unrefs, queue>>
  /\ n_dispose' = n_dispose + 1
  /\ op' = "dispose"
  /\ UNCHANGED <<device_id, max_work_group_size, constructed,
                 ctx_supplied, dev_size, retVars, n_calls, cntVars>>
  /\ noThread

Next ==
  \/ \E ctx \in Contexts \cup {NULL}, id \in DeviceIds \cup {NULL} :
       g_object_new(ctx, id)
  \/ gocl_device_get_id
  \/ gocl_device_get_context
  \/ \E err_code \in ErrCodes, written \in Sizes :
       gocl_device_get_max_work_group_size(err_code, written)
  \/ \E ok \in BOOLEAN : gocl_device_get_default_queue(ok)
  \/ gocl_device_dispose

Spec == Init /\ [][Next]_vars

\* ------------------------------------- calls by threads, step by step
\* Nothing in the device serialises its callers: a call is the sequence
\* of its reads and writes of the private fields, and the steps of two
\* calls interleave. The native query stores into the cache field
\* itself, one half at a time, so a read by another thread may see a
\* half-stored value.

seqVars == <<op, retVars, n_calls>>

\* gocl_device_get_max_work_group_size, the test of the cache field
wg_check(t) ==
  /\ constructed
  /\ thr[t].pc = "idle"
  /\ IF max_work_group_size > 0
     THEN thr' = [thr EXCEPT ![t].pc = "wg_done",
                              ![t].ret = max_work_group_size,
                              ![t].rerr = NoError]
     ELSE thr' = [thr EXCEPT ![t].pc = "wg_call"]
  /\ UNCHANGED <<privVars, lifeVars, refVars, dev_size, seqVars, cntVars>>

\* clGetDeviceInfo is entered: its status and what it will store, if
\* it stores at all (a success always does)
wg_call(t, err_code, written, stores) ==
  /\ thr[t].pc = "wg_call"
  /\ clGetDeviceInfo(device_id, err_code, written)
  /\ err_code = CL_SUCCESS => stores
  /\ thr' = [thr EXCEPT ![t].pc = "wg_store",
                        ![t].err = err_code,
                        ![t].val = written,
                        ![t].todo = IF stores THEN {"lo", "hi"} ELSE {}]
  /\ n_query' = n_query + 1
  /\ n_query_ok' = IF err_code = CL_SUCCESS THEN n_query_ok + 1
                   ELSE n_query_ok
  /\ UNCHANGED <<privVars, lifeVars, refVars, dev_size, seqVars,
                 n_attempt, n_construct>>

\* clGetDeviceInfo stores one half of its result into the cache field
wg_store(t, part) ==
  /\ thr[t].pc = "wg_store"
  /\ part \in thr[t].todo
  /\ max_work_group_size' = StoreHalf(max_work_group_size, part, thr[t].val)
  /\ thr' = [thr EXCEPT ![t].todo = @ \ {part}]
  /\ UNCHANGED <<context, device_id, queue, lifeVars, refVars, dev_size,
                 seqVars, cntVars>>

\* clGetDeviceInfo has returned: zero on a failing status, otherwise the
\* cache field as it is now
wg_return(t) ==
  /\ thr[t].pc = "wg_store"
  /\ thr[t].todo = {}
  /\ IF gocl_error_check_opencl(thr[t].err)
     THEN thr' = [thr EXCEPT ![t].pc = "wg_done",
                              ![t].ret = 0,
                              ![t].rerr = thr[t].err]
     ELSE thr' = [thr EXCEPT ![t].pc = "wg_done",
                              ![t].ret = max_work_group_size,
                              ![t].rerr = NoError]
  /\ UNCHANGED <<privVars, lifeVars, refVars, dev_size, seqVars, cntVars>>

\* gocl_device_get_default_queue, the test of the cache field
q_check(t) ==
  /\ constructed
  /\ thr[t].pc = "idle"
  /\ thr' = [thr EXCEPT ![t].pc = IF queue = NULL THEN "q_new"
                                  ELSE "q_return"]
  /\ UNCHANGED <<privVars, lifeVars, refVars, dev_size, seqVars, cntVars>>

\* g_initable_new (GOCL_TYPE_QUEUE, ..., "device", self)
q_new(t, ok) ==
  /\ thr[t].pc = "q_new"
  /\ n_attempt' = n_attempt + 1
  /\ IF ok
     THEN /\ n_construct < MaxQueues
          /\ queue_ref' = [queue_ref EXCEPT ![NewQueue] = 1]
          /\ n_construct' = n_construct + 1
          /\ thr' = [thr EXCEPT ![t].pc = "q_assign",
                                ![t].tmp = NewQueue,
                                ![t].rerr = NoError]
     ELSE /\ thr' = [thr EXCEPT ![t].pc = "q_assign",
                                ![t].tmp = NULL,
                                ![t].rerr = QueueError]
          /\ UNCHANGED <<queue_ref, n_construct>>
  /\ UNCHANGED <<privVars, lifeVars, ctx_ref, queue_unrefs, dev_size,
                 seqVars, n_query, n_query_ok>>

\* self->priv->queue = <the result of g_initable_new>
q_assign(t) ==
  /\ thr[t].pc = "q_assign"
  /\ queue' = thr[t].tmp
  /\ thr' = [thr EXCEPT ![t].pc = "q_return"]
  /\ UNCHANGED <<context, device_id, max_work_group_size, lifeVars,
                 refVars, dev_size, seqVars, cntVars>>

\* return self->priv->queue
q_return(t) ==
  /\ thr[t].pc = "q_return"
  /\ thr' = [thr EXCEPT ![t].pc = "q_done", ![t].ret = queue]
  /\ UNCHANGED <<privVars, lifeVars, refVars, dev_size, seqVars, cntVars>>

NextConc ==
  \/ \E ctx \in Contexts \cup {NULL}, id \in DeviceIds \cup {NULL} :
       g_object_new(ctx, id)
  \/ \E t \in Threads : wg_check(t)
  \/ \E t \in Threads, err_code \in ErrCodes, written \in Sizes,
        stores \in BOOLEAN : wg_call(t, err_code, written, stores)
  \/ \E t \in Threads, part \in {"lo", "hi"} : wg_store(t, part)
  \/ \E t \in Threads : wg_return(t)
  \/ \E t \in Threads : q_check(t)
  \/ \E t \in Threads, ok \in BOOLEAN : q_new(t, ok)
  \/ \E t \in Threads : q_assign(t)
  \/ \E t \in Threads : q_return(t)

SpecConc == Init /\ [][NextConc]_vars

\* ------------------------------------------------------------ properties

\* a step that is a whole call of the named operation
Call(name) == op' = name /\ n_calls' = n_calls + 1
DisposeRun == op' = "dispose" /\ n_dispose' = n_dispose + 1

\* C1: once a call of gocl_device_get_default_queue has constructed a
\* queue, every later call (the field still holding it) returns that same
\* queue and constructs nothing; over the calls on a device that has not
\* been disposed at most one queue is ever constructed.
C1_DefaultQueueConstructedOnce ==
  /\ [][(Call("get_default_queue") /\ queue # NULL) =>
          /\ ret_queue' = queue
          /\ queue' = queue
          /\ ret_qerror' = NoError
          /\ n_attempt' = n_attempt
          /\ n_construct' = n_construct]_vars
  /\ [](n_dispose = 0 => n_construct <= 1)

\* C1 witness: a call was answered with the queue an earlier call built
C1_Witness ==
  /\ op = "get_default_queue"
  /\ from_cache
  /\ ret_queue # NULL
  /\ ret_queue = queue
  /\ n_construct = 1

\* C2: a call of gocl_device_get_default_queue that finds no cached queue
\* attempts a construction; when the construction fails the call returns
\* NULL with the error set and the field stays NULL (so the next call
\* attempts again); when it succeeds the new queue is cached and returned.
C2_FailedConstructionNotCached ==
  [][(Call("get_default_queue") /\ queue = NULL) =>
       /\ n_attempt' = n_attempt + 1
       /\ (n_construct' = n_construct =>
             /\ ret_queue' = NULL
             /\ ret_qerror' # NoError
             /\ queue' = NULL
             /\ queue_ref' = queue_ref)
       /\ (n_construct' # n_construct =>
             /\ ret_queue' # NULL
             /\ ret_qerror' = NoError
             /\ queue' = ret_queue'
             /\ queue_ref'[queue'] = 1)]_vars

\* C2 witness: a construction failed, a later call retried and succeeded
C2_Witness ==
  /\ op = "get_default_queue"
  /\ n_dispose = 0
  /\ n_attempt >= 2
  /\ n_construct = 1
  /\ ~from_cache
  /\ ret_queue # NULL
  /\ ret_queue = queue

\* C3: once a call of gocl_device_get_max_work_group_size has returned a
\* size, the next call returns the identical size and issues no native
\* query; over any sequence of calls at most one native query succeeds.
C3_MaxWorkGroupSizeMemoized ==
  /\ [][(Call("get_max_work_group_size") /\ ret_size > 0) =>
          /\ ret_size' = ret_size
          /\ ret_error' = NoError
          /\ n_query' = n_query
          /\ max_work_group_size' = max_work_group_size]_vars
  /\ [](n_query_ok <= 1)

\* C3 witness: the second call was answered from the cache after the one
\* successful native query
C3_Witness ==
  /\ op = "get_max_work_group_size"
  /\ from_cache
  /\ n_query_ok = 1
  /\ n_query = 1
  /\ ret_size = dev_size

\* C4: gocl_device_get_max_work_group_size returns zero exactly when it
\* reports an error and a positive size exactly when it reports none.
C4_ZeroIffError ==
  op = "get_max_work_group_size" =>
    /\ ret_size >= 0
    /\ (ret_size = 0 <=> ret_error # NoError)
    /\ (ret_size > 0 <=> ret_error = NoError)

\* C4 witness: a native query failed after storing a non-zero value, and
\* the call returned zero with the error
C4_Witness ==
  /\ op = "get_max_work_group_size"
  /\ ret_error = "CL_OUT_OF_RESOURCES"
  /\ ret_size = 0
  /\ max_work_group_size > 0

\* C5: after a call of gocl_device_get_max_work_group_size whose native
\* query failed, the memoized size is still zero.
C5_FailedQueryLeavesCacheZero ==
  (op = "get_max_work_group_size" /\ ret_error # NoError) =>
    max_work_group_size = 0

\* C6: on a device constructed with a context and not disposed, the
\* context field is the context supplied at construction, never NULL, and
\* gocl_device_get_context returns it, whatever calls came before.
C6_ContextBackReference ==
  (constructed /\ n_dispose = 0 /\ ctx_supplied # NULL) =>
    /\ context = ctx_supplied
    /\ context # NULL
    /\ (op = "get_context" => ret_context = ctx_supplied)

\* C6 witness: gocl_device_get_context was called after a native query
\* and a queue construction
C6_Witness ==
  /\ op = "get_context"
  /\ n_dispose = 0
  /\ ret_context # NULL
  /\ n_query > 0
  /\ n_construct > 0

\* C7 as claimed: the device's reference to its context is not owning:
\* neither construction nor dispose changes a context's reference count.
C7_ContextRefNotOwned == \A c \in Contexts : ctx_ref[c] = 1

\* C7 as amended: the device owns one reference to its context:
\* construction with a context raises that context's count by one, the
\* first dispose lowers it by one and clears the field, and dispose does
\* so exactly once.
C7_ContextRefOwned ==
  /\ \A c \in Contexts : ctx_ref[c] = 1 + (IF context = c THEN 1 ELSE 0)
  /\ (constructed /\ n_dispose = 0) => context = ctx_supplied
  /\ n_dispose > 0 => context = NULL

\* C7 witness: a device constructed with a context has been disposed twice
C7_Witness ==
  /\ ctx_supplied # NULL
  /\ n_dispose = 2
  /\ ctx_ref[ctx_supplied] = 1

\* C8: when two threads have called gocl_device_get_max_work_group_size
\* at once and neither reported an error, both returned the same value
\* and the memoized size equals it.
C8_ConcurrentSameValue ==
  (\A t \in Threads : thr[t].pc = "wg_done" /\ thr[t].rerr = NoError) =>
    \A t, u \in Threads :
      /\ thr[t].ret = thr[u].ret
      /\ max_work_group_size = thr[t].ret

\* C9: a run of dispose releases the default queue once if the field
\* holds one and no queue otherwise, leaves the queue and context fields
\* NULL, and releases nothing when both were already NULL; no queue is
\* ever released twice.
C9_DisposeReleasesOnce ==
  /\ [][DisposeRun =>
          /\ queue' = NULL
          /\ context' = NULL
          /\ \A q \in Queues :
               queue_ref'[q] = queue_ref[q] - (IF q = queue THEN 1 ELSE 0)
          /\ ((queue = NULL /\ context = NULL) =>
                (queue_ref' = queue_ref /\ ctx_ref' = ctx_ref))]_vars
  /\ [](\A q \in Queues : queue_unrefs[q] <= 1 /\ queue_ref[q] \in {0, 1})

\* C9 witness: dispose ran twice on a device whose one queue was released
\* once
C9_Witness ==
  /\ op = "dispose"
  /\ n_dispose = 2
  /\ n_construct = 1
  /\ queue_unrefs[1] = 1
  /\ queue_ref[1] = 0
  /\ queue = NULL
  /\ context = NULL

\* C10: when two threads have made the first call of
\* gocl_device_get_default_queue at once, at most one queue was
\* constructed, both received the same queue, and every queue alive is
\* the one the device holds.
C10_ConcurrentSingleQueue ==
  (\A t \in Threads : thr[t].pc = "q_done") =>
    /\ n_construct <= 1
    /\ \A t, u \in Threads : thr[t].ret = thr[u].ret
    /\ \A q \in Queues : queue_ref[q] > 0 => q = queue

====
